---------------------------- MODULE Spec2Model ----------------------------
(***************************************************************************)
(* Model of streamlit_app.py: the weather lookup get_weather_serp (one     *)
(* outbound search request, extraction of a forecast text from the parsed  *)
(* response) and the Streamlit page run main() that forwards the entered   *)
(* text to the agent.                                                      *)
(*                                                                         *)
(* Python strings are sequences of one-character strings, so that join,    *)
(* substring tests, JSON serialisation and JSON parsing are computed       *)
(* character by character.  Parsed JSON values are tagged records.         *)
(***************************************************************************)
EXTENDS Integers, Sequences, FiniteSets, TLC

VARIABLES call, invocations, requests, agree,
          pc, userText, pressed, spinner, display, response, agentCalls,
          agentArg, toolCalls, runs, triggers, returned

lookupVars == <<call, invocations, requests, agree>>
uiVars == <<pc, userText, pressed, spinner, display, response, agentCalls,
            agentArg, toolCalls, runs, triggers, returned>>
vars == <<call, invocations, requests, agree,
          pc, userText, pressed, spinner, display, response, agentCalls,
          agentArg, toolCalls, runs, triggers, returned>>

-----------------------------------------------------------------------------
(* Bounds of the model.                                                    *)

\* invocations of get_weather_serp followed by the lookup specification
MaxInvocations == 2
\* entries of organic_results in the generated responses
MaxResults == 2
\* page runs followed by the UI specification
MaxRuns == 2
\* tool invocations the agent makes inside one agent.run
MaxToolCalls == 1

-----------------------------------------------------------------------------
(* Python values as json.loads produces them.                              *)

PyNone == [t |-> "none", v |-> 0]
PyStr(s) == [t |-> "str", v |-> s]
PyInt(n) == [t |-> "int", v |-> n]
PyBool(b) == [t |-> "bool", v |-> b]
PyList(items) == [t |-> "list", v |-> items]
\* a dict is its sequence of <<key, value>> pairs in insertion order
PyDict(pairs) == [t |-> "dict", v |-> pairs]

DEG == "°"
NL == "\n"
QUOTE == "\""
BSLASH == "\\"

\* the literal "°F" of lines 39 and 44
DegF == <<DEG, "F">>

K_organic_results == <<"o","r","g","a","n","i","c","_","r","e","s","u","l","t","s">>
K_rich_snippet == <<"r","i","c","h","_","s","n","i","p","p","e","t">>
K_top == <<"t","o","p">>
K_extensions == <<"e","x","t","e","n","s","i","o","n","s">>
K_snippet == <<"s","n","i","p","p","e","t">>

\* needle occurs in hay as a contiguous substring (str.__contains__)
Contains(needle, hay) ==
    \E i \in 0..(Len(hay) - Len(needle)) :
        \A j \in 1..Len(needle) : hay[i + j] = needle[j]

\* dict key lookup
HasKey(d, k) == \E i \in 1..Len(d.v) : d.v[i][1] = k
GetKey(d, k) == d.v[CHOOSE i \in 1..Len(d.v) : d.v[i][1] = k][2]

\* `k in x` for a str k: defined for dict, list and str, TypeError otherwise
InDefined(x) == x.t \in {"dict", "list", "str"}
In(k, x) ==
    CASE x.t = "dict" -> HasKey(x, k)
      [] x.t = "list" -> \E i \in 1..Len(x.v) : x.v[i] = PyStr(k)
      [] x.t = "str" -> Contains(k, x.v)
      [] OTHER -> FALSE

\* x[k] for a str k: defined for a dict holding k only
SubscriptDefined(x, k) == x.t = "dict" /\ HasKey(x, k)

\* truth value of an object (bool(x))
Truthy(x) ==
    CASE x.t = "none" -> FALSE
      [] x.t = "bool" -> x.v
      [] x.t = "int" -> x.v # 0
      [] OTHER -> Len(x.v) > 0

\* x[0]: first element of a list, first character of a str; a dict of JSON
\* (str keys only) raises KeyError, other types raise TypeError
IndexZeroDefined(x) == x.t \in {"list", "str"} /\ Len(x.v) > 0
IndexZeroError(x) ==
    CASE x.t \in {"list", "str"} -> "IndexError"
      [] x.t = "dict" -> "KeyError"
      [] OTHER -> "TypeError"

-----------------------------------------------------------------------------
(* json.dumps(obj, indent=2): the text the encoder writes, character by    *)
(* character (ensure_ascii is on, separators are "," and ": ").            *)

DigitChars == <<"0","1","2","3","4","5","6","7","8","9">>
HexChars == <<"0","1","2","3","4","5","6","7","8","9","a","b","c","d","e","f">>

RECURSIVE NatToChars(_)
NatToChars(n) ==
    IF n < 10 THEN <<DigitChars[n + 1]>>
    ELSE NatToChars(n \div 10) \o <<DigitChars[(n % 10) + 1]>>

\* str(n) of an int
IntToChars(n) == IF n < 0 THEN <<"-">> \o NatToChars(0 - n) ELSE NatToChars(n)

\* code point of the characters outside ASCII that the responses use
Ord(c) == IF c = DEG THEN 176 ELSE 63
Chr(n) == IF n = 176 THEN DEG ELSE "?"
IsAscii(c) == c # DEG

\* "\uxxxx" of a code point below 16^4
UEscape(n) ==
    <<BSLASH, "u", HexChars[((n \div 4096) % 16) + 1], HexChars[((n \div 256) % 16) + 1],
      HexChars[((n \div 16) % 16) + 1], HexChars[(n % 16) + 1]>>

EscapeChar(c) ==
    CASE c = QUOTE -> <<BSLASH, QUOTE>>
      [] c = BSLASH -> <<BSLASH, BSLASH>>
      [] c = NL -> <<BSLASH, "n">>
      [] OTHER -> IF IsAscii(c) THEN <<c>> ELSE UEscape(Ord(c))

RECURSIVE EscapeChars(_)
EscapeChars(s) ==
    IF s = <<>> THEN <<>> ELSE EscapeChar(Head(s)) \o EscapeChars(Tail(s))

\* a str as the encoder writes it
EncodeStr(s) == <<QUOTE>> \o EscapeChars(s) \o <<QUOTE>>

RECURSIVE Spaces(_)
Spaces(n) == IF n = 0 THEN <<>> ELSE <<" ">> \o Spaces(n - 1)

\* newline and indentation in front of an item at nesting level lvl
NewlineIndent(lvl) == <<NL>> \o Spaces(2 * lvl)

RECURSIVE DumpsAt(_, _)
RECURSIVE DumpItems(_, _, _)
RECURSIVE DumpMembers(_, _, _)

DumpItems(items, i, lvl) ==
    IF i > Len(items) THEN <<>>
    ELSE (IF i > 1 THEN <<",">> ELSE <<>>) \o NewlineIndent(lvl)
         \o DumpsAt(items[i], lvl) \o DumpItems(items, i + 1, lvl)

DumpMembers(pairs, i, lvl) ==
    IF i > Len(pairs) THEN <<>>
    ELSE (IF i > 1 THEN <<",">> ELSE <<>>) \o NewlineIndent(lvl)
         \o EncodeStr(pairs[i][1]) \o <<":", " ">>
         \o DumpsAt(pairs[i][2], lvl) \o DumpMembers(pairs, i + 1, lvl)

DumpsAt(x, lvl) ==
    CASE x.t = "none" -> <<"n","u","l","l">>
      [] x.t = "bool" -> IF x.v THEN <<"t","r","u","e">> ELSE <<"f","a","l","s","e">>
      [] x.t = "int" -> IntToChars(x.v)
      [] x.t = "str" -> EncodeStr(x.v)
      [] x.t = "list" ->
            IF x.v = <<>> THEN <<"[", "]">>
            ELSE <<"[">> \o DumpItems(x.v, 1, lvl + 1) \o NewlineIndent(lvl) \o <<"]">>
      [] x.t = "dict" ->
            IF x.v = <<>> THEN <<"{", "}">>
            ELSE <<"{">> \o DumpMembers(x.v, 1, lvl + 1) \o NewlineIndent(lvl) \o <<"}">>

\* json.dumps(result_json, indent=2)
JsonDumpsIndent2(x) == DumpsAt(x, 0)

-----------------------------------------------------------------------------
(* json.loads: the parse of a JSON text back into a value, used to state   *)
(* the round trip of the raw dump.                                         *)

ParseFail == [ok |-> FALSE, val |-> PyNone, pos |-> 0]
ParseOk(val, pos) == [ok |-> TRUE, val |-> val, pos |-> pos]

Whitespace == {" ", NL, "\t", "\r"}

RECURSIVE SkipWs(_, _)
SkipWs(s, i) == IF i <= Len(s) /\ s[i] \in Whitespace THEN SkipWs(s, i + 1) ELSE i

IsDigit(c) == \E d \in 1..10 : DigitChars[d] = c
DigitVal(c) == (CHOOSE d \in 1..10 : DigitChars[d] = c) - 1
IsHex(c) == \E d \in 1..16 : HexChars[d] = c
HexVal(c) == (CHOOSE d \in 1..16 : HexChars[d] = c) - 1

RECURSIVE ParseDigits(_, _, _)
ParseDigits(s, i, acc) ==
    IF i <= Len(s) /\ IsDigit(s[i]) THEN ParseDigits(s, i + 1, (10 * acc) + DigitVal(s[i]))
    ELSE [val |-> acc, pos |-> i]

\* an integer literal: -?(0|[1-9][0-9]*)
ParseNat(s, i) ==
    IF i > Len(s) \/ ~IsDigit(s[i]) THEN ParseFail
    ELSE IF s[i] = "0" THEN ParseOk(0, i + 1)
    ELSE LET d == ParseDigits(s, i, 0) IN ParseOk(d.val, d.pos)

ParseInt(s, i) ==
    IF i <= Len(s) /\ s[i] = "-"
    THEN LET r == ParseNat(s, i + 1) IN
         IF r.ok THEN ParseOk(PyInt(0 - r.val), r.pos) ELSE ParseFail
    ELSE LET r == ParseNat(s, i) IN
         IF r.ok THEN ParseOk(PyInt(r.val), r.pos) ELSE ParseFail

\* the characters of a string literal after its opening quote
RECURSIVE ParseStringBody(_, _, _)
ParseStringBody(s, i, acc) ==
    IF i > Len(s) THEN ParseFail
    ELSE IF s[i] = QUOTE THEN ParseOk(acc, i + 1)
    ELSE IF s[i] = NL THEN ParseFail
    ELSE IF s[i] # BSLASH THEN ParseStringBody(s, i + 1, Append(acc, s[i]))
    ELSE IF i + 1 > Len(s) THEN ParseFail
    ELSE IF s[i + 1] = QUOTE THEN ParseStringBody(s, i + 2, Append(acc, QUOTE))
    ELSE IF s[i + 1] = BSLASH THEN ParseStringBody(s, i + 2, Append(acc, BSLASH))
    ELSE IF s[i + 1] = "n" THEN ParseStringBody(s, i + 2, Append(acc, NL))
    ELSE IF s[i + 1] = "u" /\ i + 5 <= Len(s) /\ \A j \in 2..5 : IsHex(s[i + j])
         THEN ParseStringBody(s, i + 6,
                  Append(acc, Chr((4096 * HexVal(s[i + 2])) + (256 * HexVal(s[i + 3]))
                                  + (16 * HexVal(s[i + 4])) + HexVal(s[i + 5]))))
    ELSE ParseFail

StartsWith(s, i, word) ==
    /\ i + Len(word) - 1 <= Len(s)
    /\ \A j \in 1..Len(word) : s[i + j - 1] = word[j]

RECURSIVE ParseValue(_, _)
RECURSIVE ParseItems(_, _, _)
RECURSIVE ParseMembers(_, _, _)

\* i is at the first character of an item; acc holds the items before it
ParseItems(s, i, acc) ==
    LET r == ParseValue(s, i) IN
    IF ~r.ok THEN ParseFail
    ELSE LET k == SkipWs(s, r.pos) IN
         IF k > Len(s) THEN ParseFail
         ELSE IF s[k] = "]" THEN ParseOk(PyList(Append(acc, r.val)), k + 1)
         ELSE IF s[k] = "," THEN ParseItems(s, k + 1, Append(acc, r.val))
         ELSE ParseFail

\* i is at or before the opening quote of a key; acc holds the pairs before it
ParseMembers(s, i, acc) ==
    LET q == SkipWs(s, i) IN
    IF q > Len(s) \/ s[q] # QUOTE THEN ParseFail
    ELSE LET key == ParseStringBody(s, q + 1, <<>>) IN
         IF ~key.ok THEN ParseFail
         ELSE LET c == SkipWs(s, key.pos) IN
              IF c > Len(s) \/ s[c] # ":" THEN ParseFail
              ELSE LET r == ParseValue(s, c + 1) IN
                   IF ~r.ok THEN ParseFail
                   ELSE LET k == SkipWs(s, r.pos)
                            pairs == Append(acc, <<key.val, r.val>>)
                        IN IF k > Len(s) THEN ParseFail
                           ELSE IF s[k] = "}" THEN ParseOk(PyDict(pairs), k + 1)
                           ELSE IF s[k] = "," THEN ParseMembers(s, k + 1, pairs)
                           ELSE ParseFail

ParseValue(s, i0) ==
    LET i == SkipWs(s, i0) IN
    IF i > Len(s) THEN ParseFail
    ELSE IF s[i] = QUOTE
         THEN LET r == ParseStringBody(s, i + 1, <<>>) IN
              IF r.ok THEN ParseOk(PyStr(r.val), r.pos) ELSE ParseFail
    ELSE IF s[i] = "["
         THEN LET k == SkipWs(s, i + 1) IN
              IF k <= Len(s) /\ s[k] = "]" THEN ParseOk(PyList(<<>>), k + 1)
              ELSE ParseItems(s, k, <<>>)
    ELSE IF s[i] = "{"
         THEN LET k == SkipWs(s, i + 1) IN
              IF k <= Len(s) /\ s[k] = "}" THEN ParseOk(PyDict(<<>>), k + 1)
              ELSE ParseMembers(s, k, <<>>)
    ELSE IF StartsWith(s, i, <<"n","u","l","l">>) THEN ParseOk(PyNone, i + 4)
    ELSE IF StartsWith(s, i, <<"t","r","u","e">>) THEN ParseOk(PyBool(TRUE), i + 4)
    ELSE IF StartsWith(s, i, <<"f","a","l","s","e">>) THEN ParseOk(PyBool(FALSE), i + 5)
    ELSE ParseInt(s, i)

\* json.loads(text): the whole text is one value, or the parse fails
JsonLoads(text) ==
    LET r == ParseValue(text, 1) IN
    IF r.ok /\ SkipWs(text, r.pos) > Len(text) THEN [ok |-> TRUE, val |-> r.val]
    ELSE [ok |-> FALSE, val |-> PyNone]

-----------------------------------------------------------------------------
(* get_weather_serp.  An invocation ends by returning a value on one of    *)
(* the four return statements (its path) or by raising an exception.       *)

Return(path, value) == [kind |-> "return", path |-> path, value |-> value, exc |-> "none"]
Raise(exc) == [kind |-> "raise", path |-> "none", value |-> PyNone, exc |-> exc]
\* the block ended without returning: control goes on to the next statement
FallThrough == [kind |-> "fall", path |-> "none", value |-> PyNone, exc |-> "none"]

\* " ".join(items) is defined when every item is a str; TypeError otherwise
JoinDefined(items) == \A i \in 1..Len(items) : items[i].t = "str"

RECURSIVE JoinFrom(_, _, _)
JoinFrom(sep, items, i) ==
    IF i > Len(items) THEN <<>>
    ELSE (IF i > 1 THEN sep ELSE <<>>) \o items[i].v \o JoinFrom(sep, items, i + 1)

\* a join that drops the separator, which C1 tells from the code's
JoinNoSeparator(sep, items) == JoinFrom(<<>>, items, 1)

\* sep.join(items)
Join(sep, items) == JoinFrom(sep, items, 1)

\* the f-string of line 49
ErrorMessage(status_code) ==
    <<"E","r","r","o","r",":"," ","U","n","a","b","l","e"," ","t","o"," ",
      "f","e","t","c","h"," ","d","a","t","a"," ","f","r","o","m"," ",
      "S","E","R","P"," ","A","P","I",","," ","s","t","a","t","u","s"," ",
      "c","o","d","e",":"," ">> \o IntToChars(status_code)

\* lines 34-40: the rich snippet's extensions
ExtensionsStep(first_result) ==
    IF ~InDefined(first_result) THEN Raise("TypeError")
    ELSE IF ~In(K_rich_snippet, first_result) THEN FallThrough
    ELSE IF ~SubscriptDefined(first_result, K_rich_snippet) THEN Raise("TypeError")
    ELSE LET rich_snippet == GetKey(first_result, K_rich_snippet) IN
    IF ~InDefined(rich_snippet) THEN Raise("TypeError")
    ELSE IF ~In(K_top, rich_snippet) THEN FallThrough
    ELSE IF ~SubscriptDefined(rich_snippet, K_top) THEN Raise("TypeError")
    ELSE LET top_info == GetKey(rich_snippet, K_top) IN
    IF ~InDefined(top_info) THEN Raise("TypeError")
    ELSE IF ~In(K_extensions, top_info) THEN FallThrough
    ELSE IF ~SubscriptDefined(top_info, K_extensions) THEN Raise("TypeError")
    ELSE LET extensions == GetKey(top_info, K_extensions) IN
    IF extensions.t # "list" THEN FallThrough
    ELSE IF ~JoinDefined(extensions.v) THEN Raise("TypeError")
    ELSE LET detailed_forecast == Join(<<" ">>, extensions.v) IN
    IF Contains(DegF, detailed_forecast)
    THEN Return("extensions", PyStr(detailed_forecast))
    ELSE FallThrough

\* lines 42-45: the snippet field (first_result passed the `in` of line 34)
SnippetStep(first_result) ==
    IF ~In(K_snippet, first_result) THEN FallThrough
    ELSE IF ~SubscriptDefined(first_result, K_snippet) THEN Raise("TypeError")
    ELSE LET snippet == GetKey(first_result, K_snippet) IN
    IF ~InDefined(snippet) THEN Raise("TypeError")
    ELSE IF In(DegF, snippet) THEN Return("snippet", snippet)
    ELSE FallThrough

\* the snippet tried only without a rich_snippet member (an elif for the if of
\* line 42), which C2 tells from the code's
ExtractFromFirstElif(first_result) ==
    LET e == ExtensionsStep(first_result) IN
    IF e.kind # "fall" THEN e
    ELSE IF In(K_rich_snippet, first_result) THEN FallThrough
    ELSE SnippetStep(first_result)

\* lines 33-45: extensions first, the snippet as the fallback
ExtractFromFirst(first_result) ==
    LET e == ExtensionsStep(first_result) IN
    IF e.kind # "fall" THEN e ELSE SnippetStep(first_result)

\* line 32: organic_results[0]
FirstResult(organic_results) ==
    IF organic_results.t = "str" THEN PyStr(<<organic_results.v[1]>>)
    ELSE organic_results.v[1]

\* lines 31-47: what a parsed 200 response gives
ExtractForecast(result_json) ==
    IF ~InDefined(result_json) THEN Raise("TypeError")
    ELSE IF ~In(K_organic_results, result_json)
         THEN Return("dump", PyStr(JsonDumpsIndent2(result_json)))
    ELSE IF ~SubscriptDefined(result_json, K_organic_results) THEN Raise("TypeError")
    ELSE LET organic_results == GetKey(result_json, K_organic_results) IN
    IF ~Truthy(organic_results)
    THEN Return("dump", PyStr(JsonDumpsIndent2(result_json)))
    ELSE IF ~IndexZeroDefined(organic_results) THEN Raise(IndexZeroError(organic_results))
    ELSE LET r == ExtractFromFirst(FirstResult(organic_results)) IN
    IF r.kind # "fall" THEN r
    ELSE Return("dump", PyStr(JsonDumpsIndent2(result_json)))

\* a second request after a non-200 status, which C9 tells from the code's
RequestsIssuedWithRetry(resp) ==
    IF resp.transport = "ok" /\ resp.status # 200 THEN 2 ELSE 1

\* line 27: the number of requests.get calls one invocation makes
RequestsIssued(resp) == 1

\* the body parsed before the status is looked at, which C3 tells from the code's
JsonCallsMadeBeforeStatus(resp) == IF resp.transport = "ok" THEN 1 ELSE 0

\* line 29: the number of response.json() calls one invocation makes
JsonCallsMade(resp) == IF resp.transport = "ok" /\ resp.status = 200 THEN 1 ELSE 0

\* lines 27-49: the outcome of one invocation, given what the provider does.
\* resp.transport = "fail": requests.get raises; resp.json.ok = FALSE:
\* response.json() raises on a body that is not JSON.
GetWeatherSerp(query, resp) ==
    IF resp.transport = "fail" THEN Raise("ConnectionError")
    ELSE IF resp.status = 200
         THEN IF ~resp.json.ok THEN Raise("JSONDecodeError")
              ELSE ExtractForecast(resp.json.val)
    ELSE Return("error", PyStr(ErrorMessage(resp.status)))

-----------------------------------------------------------------------------
(* What the search provider may answer: the inputs of the model.           *)

S_72F == <<"7","2",DEG,"F">>
S_PartlyCloudy == <<"P","a","r","t","l","y"," ","c","l","o","u","d","y">>
S_Sunny == <<"S","u","n","n","y">>
S_72Deg == <<"7","2",DEG>>
S_F == <<"F">>
S_Currently == <<"C","u","r","r","e","n","t","l","y"," ","6","8",DEG,"F"," ","a","n","d"," ","c","l","e","a","r",".">>
S_Mild == <<"6","0",DEG,"C"," ",QUOTE,"m","i","l","d",QUOTE>>
S_50F == <<"5","0",DEG,"F">>
S_RainLater == <<"5","0",DEG,"F"," ","r","a","i","n">>
K_title == <<"t","i","t","l","e">>

TopWith(extensions) ==
    << <<K_rich_snippet, PyDict(<< <<K_top, PyDict(<< <<K_extensions, extensions>> >>)>> >>)>> >>

\* the rich_snippet member of an organic result: absent or one of these shapes
RichSnippetShapes ==
    { <<>>,
      << <<K_rich_snippet, PyNone>> >>,
      << <<K_rich_snippet, PyDict(<<>>)>> >>,
      << <<K_rich_snippet, PyDict(<< <<K_top, PyNone>> >>)>> >>,
      << <<K_rich_snippet, PyDict(<< <<K_top, PyDict(<<>>)>> >>)>> >>,
      TopWith(PyNone),
      TopWith(PyStr(S_72F)),
      TopWith(PyList(<<>>)),
      TopWith(PyList(<<PyStr(S_72F), PyStr(S_PartlyCloudy)>>)),
      TopWith(PyList(<<PyStr(S_Sunny)>>)),
      TopWith(PyList(<<PyStr(S_72Deg), PyStr(S_F)>>)),
      TopWith(PyList(<<PyInt(72), PyStr(DegF)>>)) }

\* the snippet member of an organic result: absent or one of these values
SnippetShapes ==
    { <<>>,
      << <<K_snippet, PyStr(S_Currently)>> >>,
      << <<K_snippet, PyStr(S_Mild)>> >>,
      << <<K_snippet, PyNone>> >>,
      << <<K_snippet, PyList(<<PyStr(DegF)>>)>> >>,
      << <<K_snippet, PyInt(68)>> >> }

FirstEntries == { PyDict(r \o sn) : r \in RichSnippetShapes, sn \in SnippetShapes }

\* an entry after the first that holds both a degree-F extensions list and snippet
LaterEntry ==
    PyDict(TopWith(PyList(<<PyStr(S_50F)>>)) \o << <<K_snippet, PyStr(S_RainLater)>> >>)

RECURSIVE LaterEntries(_)
LaterEntries(n) ==
    IF n = 0 THEN {<<>>}
    ELSE LaterEntries(n - 1) \cup { Append(t, LaterEntry) : t \in LaterEntries(n - 1) }

WithResults(organic_results) == PyDict(<< <<K_organic_results, organic_results>> >>)

\* parsed bodies with a non-empty list of organic results
ResultBodies ==
    { WithResults(PyList(<<f>> \o t)) : f \in FirstEntries, t \in LaterEntries(MaxResults - 1) }

\* parsed bodies without a first organic result to read
OtherBodies ==
    { PyDict(<<>>),
      PyDict(<< <<K_title, PyStr(S_Sunny)>> >>),
      WithResults(PyList(<<>>)),
      WithResults(PyNone),
      WithResults(PyDict(<<>>)),
      WithResults(PyStr(<<>>)),
      PyList(<<>>) }

Bodies == ResultBodies \cup OtherBodies

Parsed(val) == [ok |-> TRUE, val |-> val]
NotJson == [ok |-> FALSE, val |-> PyNone]

OtherStatuses == {201, 404, 500, 503}

Responses ==
    { [transport |-> "fail", status |-> 0, json |-> NotJson] }
    \cup { [transport |-> "ok", status |-> 200, json |-> Parsed(b)] : b \in Bodies }
    \cup { [transport |-> "ok", status |-> 200, json |-> NotJson] }
    \cup { [transport |-> "ok", status |-> st, json |-> j] :
             st \in OtherStatuses, j \in {NotJson, Parsed(PyDict(<<>>))} }

\* the answers the agent is followed on inside a page run
SampleResponses ==
    { [transport |-> "fail", status |-> 0, json |-> NotJson],
      [transport |-> "ok", status |-> 503, json |-> NotJson],
      [transport |-> "ok", status |-> 200,
       json |-> Parsed(WithResults(PyList(<<PyDict(TopWith(PyList(<<PyStr(S_72F),
                                                   PyStr(S_PartlyCloudy)>>)))>>)))] }

Queries == {"weather in Pittsburgh today"}
Texts == {"", " ", "weather in Pittsburgh today"}
Answers == {"", "Final Answer: 72 F, partly cloudy"}

-----------------------------------------------------------------------------
(* State.                                                                  *)
(*   call        the last invocation of get_weather_serp: its query, the   *)
(*               provider's answer, its outcome, and the requests.get and  *)
(*               response.json() calls it made                             *)
(*   invocations, requests   invocations made and requests sent so far     *)
(*   agree       no invocation so far gave, for the response of the        *)
(*               invocation before it, another outcome                     *)
(*   pc          position of the page run in main()                        *)
(*   userText, pressed   what st.text_input and st.button returned         *)
(*   spinner     the loading indicator is shown                            *)
(*   display     what st.write(response) put on the page in this run       *)
(*   response    the local variable of line 99                             *)
(*   agentCalls, agentArg   agent.run calls so far, the argument of the    *)
(*               last one                                                  *)
(*   toolCalls   tool invocations inside the agent.run under way           *)
(*   runs        page runs so far                                          *)
(*   triggers    page runs in which the button was pressed with text       *)
(*   returned    what the last agent.run returned                          *)

NoCall ==
    [q |-> "", resp |-> [transport |-> "none", status |-> 0, json |-> NotJson],
     out |-> FallThrough, gets |-> 0, parses |-> 0]

NoAnswer == [shown |-> FALSE, text |-> ""]
\* line 100: st.write(response)
Written(text) == [shown |-> TRUE, text |-> text]

Init ==
    /\ call = NoCall
    /\ invocations = 0
    /\ requests = 0
    /\ agree = TRUE
    /\ pc = "idle"
    /\ userText = ""
    /\ pressed = FALSE
    /\ spinner = FALSE
    /\ display = NoAnswer
    /\ response = ""
    /\ agentCalls = 0
    /\ agentArg = ""
    /\ toolCalls = 0
    /\ runs = 0
    /\ triggers = 0
    /\ returned = ""

\* one invocation of get_weather_serp(query) that the provider answers with resp
Invoke(query, resp) ==
    LET out == GetWeatherSerp(query, resp) IN
    /\ call' = [q |-> query, resp |-> resp, out |-> out,
                gets |-> RequestsIssued(resp), parses |-> JsonCallsMade(resp)]
    /\ invocations' = invocations + 1
    /\ requests' = requests + RequestsIssued(resp)
    /\ agree' = (agree /\ (call.resp = resp => call.out = out))

\* the tool is invoked directly
Lookup ==
    /\ invocations < MaxInvocations
    /\ \E query \in Queries, resp \in Responses : Invoke(query, resp)
    /\ UNCHANGED uiVars

\* the button alone deciding, which C8 tells from the code's
TriggeredByButtonAlone(button, user_query) == button

\* line 97: the condition under which the agent is run
Triggered(button, user_query) == button /\ user_query # ""

\* lines 96-98: a page run starts: the widgets return the entered text and
\* whether the button was pressed; the spinner is entered when triggered
PageRun ==
    /\ pc = "idle"
    /\ runs < MaxRuns
    /\ \E text \in Texts, button \in BOOLEAN :
          /\ userText' = text
          /\ pressed' = button
          /\ triggers' = triggers + (IF button /\ text # "" THEN 1 ELSE 0)
          /\ IF Triggered(button, text)
             THEN pc' = "spinner" /\ spinner' = TRUE
             ELSE pc' = "idle" /\ spinner' = FALSE
    /\ runs' = runs + 1
    /\ display' = NoAnswer
    /\ response' = ""
    /\ UNCHANGED <<agentCalls, agentArg, toolCalls, returned>>
    /\ UNCHANGED lookupVars

\* line 99: agent.run(user_query) is called
AgentRunCall ==
    /\ pc = "spinner"
    /\ pc' = "agent"
    /\ agentCalls' = agentCalls + 1
    /\ agentArg' = userText
    /\ toolCalls' = 0
    /\ UNCHANGED <<userText, pressed, spinner, display, response, runs, triggers, returned>>
    /\ UNCHANGED lookupVars

\* lines 52-59: inside agent.run the agent invokes the tool, whose func is
\* get_weather_serp; an exception of the tool leaves agent.run and main()
AgentToolCall ==
    /\ pc = "agent"
    /\ toolCalls < MaxToolCalls
    /\ \E query \in Queries, resp \in SampleResponses :
          /\ Invoke(query, resp)
          /\ IF GetWeatherSerp(query, resp).kind = "raise"
             THEN pc' = "idle" /\ spinner' = FALSE
             ELSE pc' = "agent" /\ spinner' = spinner
    /\ toolCalls' = toolCalls + 1
    /\ UNCHANGED <<userText, pressed, display, response, agentCalls, agentArg, runs,
                   triggers, returned>>

\* line 99: agent.run returns its final answer
AgentReturn ==
    /\ pc = "agent"
    /\ \E answer \in Answers : response' = answer /\ returned' = answer
    /\ pc' = "exit"
    /\ UNCHANGED <<userText, pressed, spinner, display, agentCalls, agentArg, toolCalls,
                   runs, triggers>>
    /\ UNCHANGED lookupVars

\* line 98: the with block of the spinner is left
SpinnerExit ==
    /\ pc = "exit"
    /\ spinner' = FALSE
    /\ pc' = "write"
    /\ UNCHANGED <<userText, pressed, display, response, agentCalls, agentArg, toolCalls,
                   runs, triggers, returned>>
    /\ UNCHANGED lookupVars

\* line 100: the answer is written to the page
Write ==
    /\ pc = "write"
    /\ display' = Written(response)
    /\ pc' = "idle"
    /\ UNCHANGED <<userText, pressed, spinner, response, agentCalls, agentArg, toolCalls,
                   runs, triggers, returned>>
    /\ UNCHANGED lookupVars

Next == Lookup

Spec == Init /\ [][Next]_vars

NextUI ==
    \/ PageRun
    \/ AgentRunCall
    \/ AgentToolCall
    \/ AgentReturn
    \/ SpinnerExit
    \/ Write

SpecUI == Init /\ [][NextUI]_vars

-----------------------------------------------------------------------------
(* Vocabulary of the properties: what a response holds, read off the       *)
(* response itself and not off the code's walk through it.                 *)

Absent == [t |-> "absent", v |-> 0]

\* the member k of an object, Absent when x is no object or has no such member
Member(x, k) == IF x.t = "dict" /\ HasKey(x, k) THEN GetKey(x, k) ELSE Absent

\* the first organic result, Absent without a non-empty list of them
FirstOrganic(body) ==
    LET r == Member(body, K_organic_results) IN
    IF r.t = "list" /\ Len(r.v) > 0 THEN r.v[1] ELSE Absent

RichOf(first) == Member(first, K_rich_snippet)
TopOf(first) == Member(RichOf(first), K_top)
ExtensionsOf(first) == Member(TopOf(first), K_extensions)
SnippetOf(first) == Member(first, K_snippet)

IsStrList(x) == x.t = "list" /\ \A i \in 1..Len(x.v) : x.v[i].t = "str"

\* the items' texts with one space between neighbours
RECURSIVE SpaceJoined(_)
SpaceJoined(items) ==
    IF Len(items) = 0 THEN <<>>
    ELSE IF Len(items) = 1 THEN items[1].v
    ELSE SpaceJoined(SubSeq(items, 1, Len(items) - 1)) \o <<" ">> \o items[Len(items)].v

\* extensions is a non-empty list of strings whose joined text holds the marker
UsableExtensions(first) ==
    LET e == ExtensionsOf(first) IN
    IsStrList(e) /\ Len(e.v) > 0 /\ Contains(DegF, SpaceJoined(e.v))

\* rich_snippet, top or extensions absent, extensions not a list, or the joined
\* extensions without the marker
NoUsableExtensions(first) ==
    /\ first.t = "dict"
    /\ \/ RichOf(first) = Absent
       \/ RichOf(first).t = "dict" /\ TopOf(first) = Absent
       \/ TopOf(first).t = "dict" /\ ExtensionsOf(first) = Absent
       \/ TopOf(first).t = "dict" /\ ExtensionsOf(first) # Absent
          /\ ExtensionsOf(first).t # "list"
       \/ IsStrList(ExtensionsOf(first))
          /\ ~Contains(DegF, SpaceJoined(ExtensionsOf(first).v))

\* snippet is a string that holds the marker
MarkedSnippet(first) ==
    SnippetOf(first).t = "str" /\ Contains(DegF, SnippetOf(first).v)

Invoked == call.resp.transport # "none"
\* the invocation got status 200 and a body that parsed
Parsed200 ==
    call.resp.transport = "ok" /\ call.resp.status = 200 /\ call.resp.json.ok
body == call.resp.json.val
Returned == call.out.kind = "return"
Returns(value) == call.out.kind = "return" /\ call.out.value = value

\* the shape section 3 of the specification gives a SearchResponse: an object;
\* organic_results, when present, a list of objects; in the first of them
\* rich_snippet and top objects, extensions a list of strings or no list at
\* all, snippet a string
Section3Shape(b) ==
    /\ b.t = "dict"
    /\ Member(b, K_organic_results) # Absent =>
          /\ Member(b, K_organic_results).t = "list"
          /\ \A i \in 1..Len(Member(b, K_organic_results).v) :
                Member(b, K_organic_results).v[i].t = "dict"
    /\ FirstOrganic(b) # Absent =>
          LET f == FirstOrganic(b) IN
          /\ RichOf(f) # Absent => RichOf(f).t = "dict"
          /\ TopOf(f) # Absent => TopOf(f).t = "dict"
          /\ ExtensionsOf(f).t = "list" => IsStrList(ExtensionsOf(f))
          /\ SnippetOf(f) # Absent => SnippetOf(f).t = "str"

T_72F_PartlyCloudy == <<"7","2",DEG,"F"," ","P","a","r","t","l","y"," ","c","l","o","u","d","y">>

-----------------------------------------------------------------------------
(* C1.  For every HTTP-200 response whose first organic result carries     *)
(* rich_snippet.top.extensions as a non-empty list of strings whose        *)
(* elements, joined with single spaces, contain the degree-F marker,       *)
(* get_weather_serp returns exactly that space-joined string; the list     *)
(* ["72°F", "Partly cloudy"] gives "72°F Partly cloudy".                    *)
C1_ExtensionsReturned ==
    (Parsed200 /\ UsableExtensions(FirstOrganic(body))) =>
        LET e == ExtensionsOf(FirstOrganic(body)) IN
        /\ Returns(PyStr(SpaceJoined(e.v)))
        /\ e.v = <<PyStr(S_72F), PyStr(S_PartlyCloudy)>> =>
              call.out.value.v = T_72F_PartlyCloudy

\* an invocation answered with the extensions ["72°F", "Partly cloudy"] has returned
C1_Witness ==
    /\ Parsed200
    /\ UsableExtensions(FirstOrganic(body))
    /\ ExtensionsOf(FirstOrganic(body)).v = <<PyStr(S_72F), PyStr(S_PartlyCloudy)>>
    /\ Returned

ErrorPrefix ==
    <<"E","r","r","o","r",":"," ","U","n","a","b","l","e"," ","t","o"," ","f","e","t","c","h"," ","d","a","t","a"," ","f","r","o","m"," ","S","E","R","P"," ","A","P","I",","," ","s","t","a","t","u","s"," ","c","o","d","e",":"," ">>

\* text is ErrorPrefix followed by the decimal numeral of n
IsErrorTextFor(text, n) ==
    /\ Len(text) > Len(ErrorPrefix)
    /\ SubSeq(text, 1, Len(ErrorPrefix)) = ErrorPrefix
    /\ LET r == ParseNat(text, Len(ErrorPrefix) + 1) IN
       r.ok /\ r.val = n /\ r.pos = Len(text) + 1

(* C3.  For any non-200 status code S, get_weather_serp returns the string *)
(* "Error: Unable to fetch data from SERP API, status code: S" and never   *)
(* calls response.json() on that path.                                     *)
C3_ErrorOnStatus ==
    (call.resp.transport = "ok" /\ call.resp.status # 200) =>
        /\ Returned
        /\ call.out.value.t = "str"
        /\ IsErrorTextFor(call.out.value.v, call.resp.status)
        /\ call.resp.status = 503 =>
              call.out.value.v = ErrorPrefix \o <<"5","0","3">>
        /\ call.parses = 0

\* an invocation answered with status 503 and a body that is JSON has ended
C3_Witness ==
    /\ call.resp.transport = "ok"
    /\ call.resp.status = 503
    /\ call.resp.json.ok
    /\ call.out.kind # "fall"

(* C4.  A transport failure, a non-success status and a 200 body that is   *)
(* not valid structured data all end with get_weather_serp returning a     *)
(* descriptive text string; none is raised to the caller as an exception.  *)
C4_ErrorsReturnText ==
    (Invoked /\ (\/ call.resp.transport = "fail"
                 \/ call.resp.status # 200
                 \/ ~call.resp.json.ok)) =>
        Returned /\ call.out.value.t = "str" /\ Len(call.out.value.v) > 0

\* the expected extraction path of a parsed body
ExpectedPath(b) ==
    IF UsableExtensions(FirstOrganic(b)) THEN "extensions"
    ELSE IF MarkedSnippet(FirstOrganic(b)) THEN "snippet"
    ELSE "dump"

(* C5.  For every HTTP-200 response exactly one of the paths extensions,   *)
(* snippet, raw dump is taken, the earliest applicable one winning         *)
(* (extensions over snippet over raw dump), and the same response always   *)
(* yields the same ForecastText.                                           *)
C5_PrecedenceTotal ==
    /\ Parsed200 =>
          /\ Returned
          /\ call.out.path \in {"extensions", "snippet", "dump"}
          /\ call.out.path = ExpectedPath(body)
    /\ agree

\* C5 on the responses of the shape of section 3
C5_OnSection3Shape ==
    /\ (Parsed200 /\ Section3Shape(body)) =>
          /\ Returned
          /\ call.out.path = ExpectedPath(body)
    /\ agree

T_EmptyResultsDump ==
    <<"{", NL, " ", " ">> \o EncodeStr(K_organic_results) \o <<":", " ", "[", "]", NL, "}">>

\* the invocation returned the indent-2 text of body, which parses back to body
ReturnedDumpOf(b) ==
    /\ Returned
    /\ call.out.value.t = "str"
    /\ call.out.value = PyStr(JsonDumpsIndent2(b))
    /\ JsonLoads(call.out.value.v) = [ok |-> TRUE, val |-> b]
    /\ b = WithResults(PyList(<<>>)) => call.out.value.v = T_EmptyResultsDump

(* C6.  For every HTTP-200 response with neither a usable degree-F         *)
(* extensions string nor a degree-F snippet in its first organic result    *)
(* (organic_results absent or empty included), get_weather_serp returns    *)
(* the indent-2 serialization of the whole parsed response, and parsing    *)
(* that string back yields the original structure.                         *)
C6_DumpRoundTrips ==
    (/\ Parsed200
     /\ ~UsableExtensions(FirstOrganic(body))
     /\ ~MarkedSnippet(FirstOrganic(body))) =>
        ReturnedDumpOf(body)

\* C6 on the responses of the shape of section 3
C6_OnSection3Shape ==
    (/\ Parsed200
     /\ Section3Shape(body)
     /\ ~UsableExtensions(FirstOrganic(body))
     /\ ~MarkedSnippet(FirstOrganic(body))) =>
        ReturnedDumpOf(body)

(* C7.  Whatever the status code and whatever the shape or field types of  *)
(* the response body, the value returned is a non-empty string that is     *)
(* exactly one of the joined extensions, the snippet, the raw dump or the  *)
(* error message.                                                          *)
C7_AlwaysNonEmptyString ==
    (call.resp.transport = "ok" /\ (call.resp.status # 200 \/ call.resp.json.ok)) =>
        /\ Returned
        /\ call.out.value.t = "str"
        /\ Len(call.out.value.v) > 0
        /\ \/ call.out.path = "error"
              /\ IsErrorTextFor(call.out.value.v, call.resp.status)
           \/ call.out.path = "extensions"
              /\ IsStrList(ExtensionsOf(FirstOrganic(body)))
              /\ call.out.value.v = SpaceJoined(ExtensionsOf(FirstOrganic(body)).v)
           \/ call.out.path = "snippet"
              /\ call.out.value = SnippetOf(FirstOrganic(body))
           \/ call.out.path = "dump"
              /\ call.out.value.v = JsonDumpsIndent2(body)

\* C7 on the responses of the shape of section 3
C7_OnSection3Shape ==
    (/\ call.resp.transport = "ok"
     /\ call.resp.status = 200 => (call.resp.json.ok /\ Section3Shape(body))) =>
        /\ Returned
        /\ call.out.value.t = "str"
        /\ Len(call.out.value.v) > 0

(* C8.  Over any sequence of page runs the agent is called only when the   *)
(* button is pressed with non-empty entered text; each such trigger makes  *)
(* exactly one agent.run call with the entered text; the loading indicator *)
(* is shown from before that call until it returns; the string displayed   *)
(* afterwards is exactly what the agent returned; with empty text or the   *)
(* button not pressed no agent call is issued and nothing is displayed as  *)
(* an answer.                                                              *)
C8_PageRun ==
    /\ pc \in {"spinner", "agent", "exit", "write"} => (pressed /\ userText # "")
    /\ agentCalls = triggers - (IF pc = "spinner" THEN 1 ELSE 0)
    /\ pc \in {"agent", "exit", "write"} => agentArg = userText
    /\ pc \in {"spinner", "agent"} => spinner
    /\ spinner => pc \in {"spinner", "agent", "exit"}
    /\ display.shown => (pressed /\ userText # "" /\ pc = "idle" /\ display.text = returned)
    /\ (pc = "idle" /\ ~(pressed /\ userText # "")) => ~display.shown

\* the second of two page runs, one of them triggered, has displayed the
\* agent's answer after the agent invoked the tool
C8_Witness ==
    /\ runs = 2
    /\ display.shown
    /\ display.text = "Final Answer: 72 F, partly cloudy"
    /\ toolCalls = 1
    /\ agentCalls = 1
    /\ triggers = 1

C10_FirstResultOnly ==
    (/\ Parsed200
     /\ Member(body, K_organic_results).t = "list"
     /\ Len(Member(body, K_organic_results).v) > 0) =>
        /\ Returned
        /\ call.out.path = ExpectedPath(body)
        /\ call.out.path = "dump" => call.out.value.v = JsonDumpsIndent2(body)
        /\ call.out.path = "extensions" =>
              call.out.value.v = SpaceJoined(ExtensionsOf(FirstOrganic(body)).v)
        /\ call.out.path = "snippet" => call.out.value = SnippetOf(FirstOrganic(body))

\* C10 on the responses of the shape of section 3
C10_OnSection3Shape ==
    (/\ Parsed200
     /\ Section3Shape(body)
     /\ Member(body, K_organic_results).t = "list"
     /\ Len(Member(body, K_organic_results).v) > 1) =>
        /\ Returned
        /\ call.out.path = ExpectedPath(body)
        /\ call.out.path = "dump" => call.out.value.v = JsonDumpsIndent2(body)

=============================================================================
